---------------------------- MODULE Spec2Model ----------------------------
(***************************************************************************)
(* Model of librover's control core (src/src/control.cpp):                 *)
(*   - the kinematic helpers computeVelocitiesFromWheelspeeds and          *)
(*     limitAcceleration,                                                  *)
(*   - the class PidController,                                            *)
(*   - the class SkidRobotMotionController.                                *)
(*                                                                         *)
(* C++ float/double values are modelled as extended rationals <<n, d>>:    *)
(*   d > 0  : the finite value n/d (in lowest terms),                      *)
(*   <<1,0>>, <<-1,0>> : +Inf, -Inf,       <<0,0>> : NaN.                  *)
(* Arithmetic is exact (no rounding of the mantissa); the finite range of  *)
(* a float is [-FLT_MAX, FLT_MAX] and a float operation whose exact result *)
(* leaves that range yields +-Inf, as IEEE-754 does.  Comparisons with NaN *)
(* are false, as in C++.                                                   *)
(***************************************************************************)
EXTENDS Integers, Sequences, FiniteSets, TLC

VARIABLES
    pid,    \* the PidController instance (its private fields)
    mc,     \* the SkidRobotMotionController instance (its private fields)
    call,   \* the last call made: [op |-> name, args |-> <<...>>]
    ret     \* what that call returned (a record tagged by kind)

vars == <<pid, mc, call, ret>>

(***************************************************************************)
(* Bounds of the model.                                                    *)
(***************************************************************************)
\* Largest finite magnitude of the model's float format (stands for FLT_MAX).
MaxFloat == 100
\* The wall clock (milliseconds since construction) is explored up to here.
MaxTime == 1000

-----------------------------------------------------------------------------
(***************************************************************************)
(* Float arithmetic.                                                       *)
(***************************************************************************)
Abs(i) == IF i < 0 THEN -i ELSE i

Sign(i) == IF i < 0 THEN -1 ELSE IF i > 0 THEN 1 ELSE 0

RECURSIVE GCD(_, _)
GCD(a, b) == IF b = 0 THEN a ELSE GCD(b, a % b)

\* the value n/d, in canonical form (d = 0 gives Inf, -Inf or NaN)
Norm(n, d) ==
    IF d = 0 THEN <<Sign(n), 0>>
    ELSE LET g == GCD(Abs(n), Abs(d))
             s == Sign(d)
         IN  <<(s * n) \div g, (s * d) \div g>>

R(i) == <<i, 1>>

NaN == <<0, 0>>
PInf == <<1, 0>>
NInf == <<-1, 0>>
Zero == R(0)

IsNaN(x) == x = NaN
IsFinite(x) == x[2] # 0

\* std::numeric_limits<float>::max() and ::lowest()
FLT_MAX == R(MaxFloat)
FLT_LOWEST == R(-MaxFloat)

\* C++ operator< and operator> on floating values (false when either is NaN)
Less(x, y) ==
    IF IsNaN(x) \/ IsNaN(y) THEN FALSE
    ELSE IF x[2] = 0 /\ y[2] = 0 THEN x[1] < y[1]
    ELSE x[1] * y[2] < y[1] * x[2]

Greater(x, y) == Less(y, x)

Neg(x) == <<-x[1], x[2]>>

\* exact (double precision) arithmetic with the IEEE special values
Add(x, y) ==
    IF x[2] = 0 /\ y[2] = 0 THEN (IF x = y THEN x ELSE NaN)
    ELSE Norm(x[1] * y[2] + y[1] * x[2], x[2] * y[2])

Sub(x, y) == Add(x, Neg(y))

Mul(x, y) == Norm(x[1] * y[1], x[2] * y[2])

Recip(x) == IF x[1] < 0 THEN <<-x[2], -x[1]>> ELSE <<x[2], x[1]>>

Div(x, y) == Mul(x, Recip(y))

\* conversion of a result to float: beyond FLT_MAX it overflows to +-Inf
ToFloat(x) ==
    IF ~IsFinite(x) THEN x
    ELSE IF Less(FLT_MAX, x) THEN PInf
    ELSE IF Less(x, FLT_LOWEST) THEN NInf
    ELSE x

\* float (op) float, evaluated in float
FAdd(x, y) == ToFloat(Add(x, y))
FSub(x, y) == ToFloat(Sub(x, y))
FMul(x, y) == ToFloat(Mul(x, y))
FDiv(x, y) == ToFloat(Div(x, y))

\* std::min(a, b): (b < a) ? b : a
Min(a, b) == IF Less(b, a) THEN b ELSE a

\* integer division of C++ (truncation toward zero)
TruncDiv(a, b) == Sign(a) * Sign(b) * (Abs(a) \div Abs(b))

-----------------------------------------------------------------------------
(***************************************************************************)
(* Kinematic functions                                                     *)
(***************************************************************************)
\* M_PI of <math.h> and RPM_TO_RADS_SEC (2*pi/60) of control.hpp, as
\* rational approximations
M_PI == <<22, 7>>
RPM_TO_RADS_SEC == <<21, 200>>

\* largest k with k*k <= n
ISqrt(n) == CHOOSE k \in 0..n : k * k <= n /\ n < (k + 1) * (k + 1)

\* sqrt(x) of <math.h>: exact on squares of rationals, rounded down to a
\* multiple of 1/d otherwise (never zero for x > 0); NaN for x < 0
Sqrt(x) ==
    IF IsNaN(x) \/ x = NInf \/ x[1] < 0 THEN NaN
    ELSE IF x = PInf THEN PInf
    ELSE Norm(ISqrt(x[1] * x[2]), x[2])

\* pow(x, 2)
Pow2(x) == Mul(x, x)

\* radius of robot's stance
StanceRadius(g) ==
    ToFloat(Sqrt(Add(Pow2(Mul(<<1, 2>>, g.wheel_base)),
                     Pow2(Mul(<<1, 2>>, g.intra_axle_distance)))))

\* circumference of robot's stance (meters)
StanceCircumference(g) == ToFloat(Mul(Mul(R(2), M_PI), StanceRadius(g)))

\* translate wheelspeed (rpm) into travel rate (m/s): the slower wheel of a side
TravelRate(front, rear, g) ==
    ToFloat(Mul(Mul(Min(front, rear), RPM_TO_RADS_SEC), g.wheel_radius))

\* the differential taken the other way round
TravelDifferential_Swapped(right_travel_rate, left_travel_rate) ==
    FSub(left_travel_rate, right_travel_rate)

\* difference between left and right travel rates
TravelDifferential(right_travel_rate, left_travel_rate) ==
    FSub(right_travel_rate, left_travel_rate)

\* computeVelocitiesFromWheelspeeds(wheel_speeds, robot_geometry)
ComputeVelocitiesFromWheelspeeds(wheel_speeds, g) ==
    LET cs == StanceCircumference(g)
        left_travel_rate == TravelRate(wheel_speeds.fl, wheel_speeds.rl, g)
        right_travel_rate == TravelRate(wheel_speeds.fr, wheel_speeds.rr, g)
        travel_differential == TravelDifferential(right_travel_rate, left_travel_rate)
    IN  [ kind |-> "robot_velocities",
          linear_velocity |-> Min(left_travel_rate, right_travel_rate),
          angular_velocity |-> FDiv(travel_differential, cs) ]

\* compute proposed acceleration: (target - measured) / dt
ProposedAcceleration(target, measured, dt) == FDiv(FSub(target, measured), dt)

\* clip the proposed acceleration into an acceptable acceleration
ClipAcceleration(acceleration, limit) ==
    LET hi == IF Greater(acceleration, limit) THEN limit ELSE acceleration
    IN  IF Less(hi, Neg(limit)) THEN Neg(limit) ELSE hi

\* calculate new velocity: measured + acceleration * dt
NewVelocity(measured, acceleration, dt) == FAdd(measured, FMul(acceleration, dt))

\* limitAcceleration(target_velocities, measured_velocities, delta_v_limits, dt)
LimitAcceleration(target, measured, limits, dt) ==
    LET linear_acceleration ==
            ClipAcceleration(
                ProposedAcceleration(target.linear_velocity,
                                     measured.linear_velocity, dt),
                limits.linear_velocity)
        angular_acceleration ==
            ClipAcceleration(
                ProposedAcceleration(target.angular_velocity,
                                     measured.angular_velocity, dt),
                limits.angular_velocity)
    IN  [ kind |-> "robot_velocities",
          linear_velocity |->
              NewVelocity(measured.linear_velocity, linear_acceleration, dt),
          angular_velocity |->
              NewVelocity(measured.angular_velocity, angular_acceleration, dt) ]

-----------------------------------------------------------------------------
(***************************************************************************)
(* Values the callers pass.                                                *)
(***************************************************************************)
NoRet == [kind |-> "void"]

Call(op, args) == [op |-> op, args |-> args]

\* pid_gains values handed to the constructors and to setGains
PidGainsSet ==
    { [kp |-> R(k[1]), ki |-> R(k[2]), kd |-> R(k[3])] :
        k \in { <<1, 0, 0>>, <<2, -2, 1>> } }

\* pid_output_limits values (the last one has posmax < negmax)
PidOutputLimitsSet ==
    { [posmax |-> R(l[1]), negmax |-> R(l[2])] :
        l \in { <<5, -5>>, <<-1, 1>> } }

\* arguments of setIntegralErrorLimit
ErrorLimitSet == { R(4), R(-2) }

\* <<target, measured>> arguments of runControl
RunControlArgs ==
    { <<R(10), R(8)>>, <<R(0), R(8)>>, <<R(MaxFloat), R(0)>> }

\* milliseconds the wall clock may advance between two calls
ElapsedSet == { 0, 500, 1000 }

\* robot_velocities values
Velocities(lin, ang) == [linear_velocity |-> lin, angular_velocity |-> ang]

\* motor_data values
MotorData(fl, fr, rl, rr) == [fl |-> fl, fr |-> fr, rl |-> rl, rr |-> rr]

\* robot_geometry values (meters); some have zero dimensions
Geometry(wb, iad, wr) ==
    [wheel_base |-> wb, intra_axle_distance |-> iad, wheel_radius |-> wr]

GeometrySet ==
    { Geometry(<<3, 5>>, <<4, 5>>, <<1, 10>>),
      Geometry(<<1, 2>>, <<2, 5>>, <<1, 10>>),
      Geometry(<<3, 5>>, Zero, <<1, 10>>),
      Geometry(Zero, Zero, <<1, 10>>),
      Geometry(<<3, 5>>, <<4, 5>>, Zero) }

\* wheel speeds (rpm) of one wheel
WheelSpeedSet == { R(-MaxFloat), R(0), R(10) }

\* inputs of limitAcceleration
TargetVelocitiesSet ==
    { Velocities(R(0), R(0)), Velocities(R(5), R(1)), Velocities(R(-5), R(-1)) }
MeasuredVelocitiesSet == { Velocities(R(0), R(0)), Velocities(R(1), <<1, 2>>) }
DeltaVLimitsSet ==
    { Velocities(<<1, 2>>, <<1, 5>>), Velocities(R(6), R(2)),
      Velocities(FLT_MAX, FLT_MAX) }
\* cycle periods (seconds)
DtSet == { Zero, <<1, 10>>, R(1) }

\* inputs of runMotionControl
MotorSpeedsSet ==
    { MotorData(R(0), R(10), R(0), R(10)),
      MotorData(R(10), R(10), R(10), R(10)) }
DutyCyclesSet == { MotorData(R(0), R(0), R(0), R(0)) }
VelocityTargetsSet == { Velocities(R(0), R(0)), Velocities(R(5), R(1)) }

\* arguments of the motion controller's setters
MaxDutySet == { R(50) }
TractionGainSet == { <<1, 2>> }
FilterAlphaSet == { <<1, 2>> }
AccelerationLimitsSet == { Velocities(<<1, 2>>, <<1, 5>>) }
OperatingModes == { "OPEN_LOOP", "CLOSED_LOOP" }

\* what an uninitialized or never-assigned float may hold
IndeterminateFloats == { Zero, FLT_MAX, NaN }

\* geometries and gains handed to the motion controller
McGeometrySet ==
    { Geometry(<<3, 5>>, <<4, 5>>, <<1, 10>>),
      Geometry(Zero, Zero, <<1, 10>>),
      Geometry(<<3, 5>>, <<4, 5>>, Zero) }
McPidGainsSet ==
    { [kp |-> R(1), ki |-> R(0), kd |-> R(0)], [kp |-> R(2), ki |-> R(1), kd |-> R(0)] }

-----------------------------------------------------------------------------
(***************************************************************************)
(* class PidController                                                     *)
(***************************************************************************)
\* PidController(pid_gains): limits default to the float range
PidController1(g) ==
    [ kp_ |-> g.kp, kd_ |-> g.kd, ki_ |-> g.ki,
      integral_error_ |-> Zero,
      integral_error_limit_ |-> FLT_MAX,
      pos_max_output_ |-> FLT_MAX,
      neg_max_output_ |-> FLT_LOWEST,
      time_last_ |-> 0 ]

\* PidController(pid_gains, pid_output_limits)
PidController2(g, l) ==
    [ kp_ |-> g.kp, kd_ |-> g.kd, ki_ |-> g.ki,
      integral_error_ |-> Zero,
      integral_error_limit_ |-> FLT_MAX,
      pos_max_output_ |-> l.posmax,
      neg_max_output_ |-> l.negmax,
      time_last_ |-> 0 ]

\* a setGains that also restarts the integration
SetGains_ResetsIntegral(p, g) ==
    [p EXCEPT !.kp_ = g.kp, !.kd_ = g.kd, !.ki_ = g.ki, !.integral_error_ = Zero]

\* setGains(pid_gains)
SetGains(p, g) == [p EXCEPT !.kp_ = g.kp, !.kd_ = g.kd, !.ki_ = g.ki]

\* setOutputLimits(pid_output_limits)
SetOutputLimits(p, l) ==
    [p EXCEPT !.pos_max_output_ = l.posmax, !.neg_max_output_ = l.negmax]

\* setIntegralErrorLimit(error_limit)
SetIntegralErrorLimit(p, error_limit) ==
    [p EXCEPT !.integral_error_limit_ = error_limit]

\* delta time (S): (time_now - time_last_).count() / 1000, an integer
\* division of the millisecond count, then converted to float
DeltaTime(time_now, time_last) ==
    ToFloat(R(TruncDiv(time_now - time_last, 1000)))

\* an integration without the anti-windup clipping
Integrate_NoClip(integral_error, error, limit) == FAdd(integral_error, error)

\* integral_error_ += error, then the two clipping ifs
Integrate(integral_error, error, limit) ==
    LET sum == FAdd(integral_error, error)
        hi  == IF Greater(sum, limit) THEN limit ELSE sum
    IN  IF Less(hi, Neg(limit)) THEN Neg(limit) ELSE hi

\* the two ifs that clip the output
ClipOutput(output, pos_max, neg_max) ==
    LET hi == IF Greater(output, pos_max) THEN pos_max ELSE output
    IN  IF Less(hi, neg_max) THEN neg_max ELSE hi

\* P I D terms
PTerm(error, kp) == FMul(error, kp)
ITerm(integral_error, ki) == FMul(integral_error, ki)
DTerm(delta_time, kd) == FMul(delta_time, kd)

\* runControl(target, measured), the system clock reading time_now:
\* the new fields of the controller and the pid_outputs it returns
RunControl(p, target, measured, time_now) ==
    LET delta_time == DeltaTime(time_now, p.time_last_)
        error      == FSub(target, measured)
        integral   == Integrate(p.integral_error_, error, p.integral_error_limit_)
        pt         == PTerm(error, p.kp_)
        it         == ITerm(integral, p.ki_)
        dt         == DTerm(delta_time, p.kd_)
        output     == ClipOutput(FAdd(FAdd(pt, it), dt),
                                 p.pos_max_output_, p.neg_max_output_)
    IN  [ pid |-> [p EXCEPT !.time_last_ = time_now,
                            !.integral_error_ = integral],
          out |-> [ kind |-> "pid_outputs",
                    pid_output |-> output,
                    dt |-> delta_time,
                    error |-> error,
                    integral_error |-> integral,
                    target_value |-> target,
                    measured_value |-> measured,
                    kp |-> p.kp_, ki |-> p.ki_, kd |-> p.kd_ ] ]

(***************************************************************************)
(* The PidController driven by an arbitrary caller.                        *)
(***************************************************************************)
McIdle == [kind |-> "unused"]

InitPid ==
    /\ \/ \E g \in PidGainsSet :
            /\ pid = PidController1(g)
            /\ call = Call("PidController", <<g>>)
       \/ \E g \in PidGainsSet, l \in PidOutputLimitsSet :
            /\ pid = PidController2(g, l)
            /\ call = Call("PidController", <<g, l>>)
    /\ mc = McIdle
    /\ ret = NoRet

DoSetGains ==
    \E g \in PidGainsSet :
        /\ pid' = SetGains(pid, g)
        /\ call' = Call("setGains", <<g>>)
        /\ ret' = NoRet
        /\ UNCHANGED mc

DoSetOutputLimits ==
    \E l \in PidOutputLimitsSet :
        /\ pid' = SetOutputLimits(pid, l)
        /\ call' = Call("setOutputLimits", <<l>>)
        /\ ret' = NoRet
        /\ UNCHANGED mc

DoSetIntegralErrorLimit ==
    \E e \in ErrorLimitSet :
        /\ pid' = SetIntegralErrorLimit(pid, e)
        /\ call' = Call("setIntegralErrorLimit", <<e>>)
        /\ ret' = NoRet
        /\ UNCHANGED mc

DoRunControl ==
    \E a \in RunControlArgs, e \in ElapsedSet :
        LET t == a[1]
            m == a[2]
            time_now == pid.time_last_ + e
            r == RunControl(pid, t, m, time_now)
        IN  /\ time_now <= MaxTime
            /\ pid' = r.pid
            /\ call' = Call("runControl", <<t, m, time_now>>)
            /\ ret' = r.out
            /\ UNCHANGED mc

NextPid ==
    \/ DoSetGains
    \/ DoSetOutputLimits
    \/ DoSetIntegralErrorLimit
    \/ DoRunControl

SpecPid == InitPid /\ [][NextPid]_vars

-----------------------------------------------------------------------------
(***************************************************************************)
(* Properties of the PidController (checked under SpecPid).                *)
(***************************************************************************)
\* x <= y on floating values (false when either is NaN)
LessEq(x, y) == ~IsNaN(x) /\ ~IsNaN(y) /\ ~Less(y, x)

\* lo <= x <= hi
InRange(x, lo, hi) == LessEq(lo, x) /\ LessEq(x, hi)

\* clamp of x to [lo, hi], for lo <= hi
Clamp(x, lo, hi) == IF Less(x, lo) THEN lo ELSE IF Less(hi, x) THEN hi ELSE x

IsRunControl(c) == c.op = "runControl"

\* C1: with posmax >= negmax, the pid_output returned by every runControl
\* call lies in [negmax, posmax] for the limits in force at that call.
C1_OutputWithinLimits ==
    (IsRunControl(call) /\ LessEq(pid.neg_max_output_, pid.pos_max_output_))
        => InRange(ret.pid_output, pid.neg_max_output_, pid.pos_max_output_)

\* C2: in every reachable state the integral accumulator lies in
\* [-integral_error_limit_, +integral_error_limit_].
C2_IntegralWithinLimit ==
    InRange(pid.integral_error_,
            Neg(pid.integral_error_limit_), pid.integral_error_limit_)

\* C7: setGains, setOutputLimits and setIntegralErrorLimit store their
\* arguments and leave integral_error_, time_last_ and the other
\* configuration fields unchanged; the next runControl call reports the
\* stored gains and clips with the stored limits.
C7_SetGainsStep ==
    call'.op = "setGains" =>
        /\ pid' = [pid EXCEPT !.kp_ = call'.args[1].kp,
                              !.ki_ = call'.args[1].ki,
                              !.kd_ = call'.args[1].kd]
        /\ pid'.integral_error_ = pid.integral_error_
        /\ pid'.time_last_ = pid.time_last_

C7_SetOutputLimitsStep ==
    call'.op = "setOutputLimits" =>
        /\ pid' = [pid EXCEPT !.pos_max_output_ = call'.args[1].posmax,
                              !.neg_max_output_ = call'.args[1].negmax]
        /\ pid'.integral_error_ = pid.integral_error_
        /\ pid'.time_last_ = pid.time_last_

C7_SetIntegralErrorLimitStep ==
    call'.op = "setIntegralErrorLimit" =>
        /\ pid' = [pid EXCEPT !.integral_error_limit_ = call'.args[1]]
        /\ pid'.integral_error_ = pid.integral_error_
        /\ pid'.time_last_ = pid.time_last_

C7_NextRunUsesStored ==
    IsRunControl(call') =>
        /\ ret'.kp = pid.kp_ /\ ret'.ki = pid.ki_ /\ ret'.kd = pid.kd_
        /\ (LessEq(pid.neg_max_output_, pid.pos_max_output_) /\ ~IsNaN(ret'.pid_output))
              => InRange(ret'.pid_output, pid.neg_max_output_, pid.pos_max_output_)
        /\ LessEq(Zero, pid.integral_error_limit_)
              => InRange(pid'.integral_error_,
                         Neg(pid.integral_error_limit_), pid.integral_error_limit_)

C7_SettersKeepAccumulatedState ==
    [][ /\ C7_SetGainsStep
        /\ C7_SetOutputLimitsStep
        /\ C7_SetIntegralErrorLimitStep
        /\ C7_NextRunUsesStored ]_vars

\* a setter has just run on a controller with accumulated state
C7_Witness ==
    /\ call.op = "setGains"
    /\ pid.integral_error_ # Zero
    /\ pid.time_last_ # 0
    /\ pid.kp_ = R(2)

\* C9: the dt of a runControl call is the elapsed time in seconds, fractions
\* included, since the previous call (or construction), and time_last_
\* becomes the current time.
C9_DtIsElapsedSeconds ==
    [][ IsRunControl(call') =>
          /\ ret'.dt = Div(R(call'.args[3] - pid.time_last_), R(1000))
          /\ pid'.time_last_ = call'.args[3] ]_vars

\* C10: runControl computes error = target - measured, adds it unscaled to
\* the accumulator and clamps that, and returns
\* clamp(error*kp + integral_error*ki + dt*kd, negmax, posmax); with ki = 0
\* and kd = 0 the output is clamp(kp * (target - measured)), whatever was
\* called before (kp = 1, target = 10, measured = 8 gives 2).
C10_RunStep ==
    IsRunControl(call') =>
        LET error == FSub(call'.args[1], call'.args[2])
            limit == pid.integral_error_limit_
            integral == pid'.integral_error_
            raw == FAdd(FAdd(FMul(error, pid.kp_), FMul(integral, pid.ki_)),
                        FMul(ret'.dt, pid.kd_))
        IN  /\ ret'.error = error
            /\ ret'.integral_error = integral
            /\ LessEq(Zero, limit) =>
                  integral = Clamp(FAdd(pid.integral_error_, error), Neg(limit), limit)
            /\ LessEq(pid.neg_max_output_, pid.pos_max_output_) =>
                  ret'.pid_output = Clamp(raw, pid.neg_max_output_, pid.pos_max_output_)

C10_ProportionalOnly ==
    (/\ IsRunControl(call)
     /\ ret.ki = Zero /\ ret.kd = Zero
     /\ LessEq(pid.neg_max_output_, pid.pos_max_output_)) =>
        /\ ret.pid_output =
              Clamp(FMul(ret.kp, FSub(ret.target_value, ret.measured_value)),
                    pid.neg_max_output_, pid.pos_max_output_)
        /\ (/\ ret.kp = R(1) /\ ret.target_value = R(10) /\ ret.measured_value = R(8)
            /\ InRange(R(2), pid.neg_max_output_, pid.pos_max_output_))
              => ret.pid_output = R(2)

C10_RunControlFormula == [][C10_RunStep]_vars /\ []C10_ProportionalOnly

\* kp = 1, ki = kd = 0: runControl(10, 8) returned 2 after earlier calls
C10_Witness ==
    /\ IsRunControl(call)
    /\ ret.kp = R(1) /\ ret.ki = Zero /\ ret.kd = Zero
    /\ ret.target_value = R(10) /\ ret.measured_value = R(8)
    /\ ret.pid_output = R(2)
    /\ pid.integral_error_ # R(2)

-----------------------------------------------------------------------------
(***************************************************************************)
(* The kinematic functions applied to arguments drawn by the caller.       *)
(***************************************************************************)
Pending == [kind |-> "pending"]

InitKin ==
    /\ pid = [kind |-> "unused"]
    /\ mc = McIdle
    /\ ret = Pending
    /\ \/ \E fl \in WheelSpeedSet, fr \in WheelSpeedSet,
             rl \in WheelSpeedSet, rr \in WheelSpeedSet, g \in GeometrySet :
            call = Call("computeVelocitiesFromWheelspeeds",
                        <<MotorData(fl, fr, rl, rr), g>>)
       \/ \E t \in TargetVelocitiesSet, m \in MeasuredVelocitiesSet,
             l \in DeltaVLimitsSet, dt \in DtSet :
            call = Call("limitAcceleration", <<t, m, l, dt>>)

DoComputeVelocities ==
    /\ ret = Pending
    /\ call.op = "computeVelocitiesFromWheelspeeds"
    /\ ret' = ComputeVelocitiesFromWheelspeeds(call.args[1], call.args[2])
    /\ UNCHANGED <<pid, mc, call>>

DoLimitAcceleration ==
    /\ ret = Pending
    /\ call.op = "limitAcceleration"
    /\ ret' = LimitAcceleration(call.args[1], call.args[2], call.args[3], call.args[4])
    /\ UNCHANGED <<pid, mc, call>>

NextKin == DoComputeVelocities \/ DoLimitAcceleration

SpecKin == InitKin /\ [][NextKin]_vars

-----------------------------------------------------------------------------
(***************************************************************************)
(* Properties of the kinematic functions (checked under SpecKin).          *)
(***************************************************************************)
AbsF(x) == IF x[1] < 0 THEN Neg(x) ELSE x

Returned(op) == call.op = op /\ ret # Pending

\* C4 on one axis: |r - measured| <= limit * dt, and r = target when the
\* unclamped acceleration (target - measured) / dt is within the limit
C4_Axis(r, target, measured, limit, dt) ==
    /\ LessEq(AbsF(Sub(r, measured)), Mul(limit, dt))
    /\ InRange(Div(Sub(target, measured), dt), Neg(limit), limit) => r = target

\* C4: for every target, measured, delta_v_limits and dt the result of
\* limitAcceleration stays, on each axis, within delta_v_limits * dt of the
\* measured velocity, and equals the target when no clamping is needed.
C4_AccelerationWithinLimit ==
    Returned("limitAcceleration") =>
        LET t == call.args[1]
            m == call.args[2]
            l == call.args[3]
            dt == call.args[4]
        IN  /\ C4_Axis(ret.linear_velocity, t.linear_velocity,
                       m.linear_velocity, l.linear_velocity, dt)
            /\ C4_Axis(ret.angular_velocity, t.angular_velocity,
                       m.angular_velocity, l.angular_velocity, dt)

\* C5: limitAcceleration with dt = 0 returns the measured velocities
\* unchanged (finite), it never yields Inf or NaN.
C5_ZeroDtGuarded ==
    (Returned("limitAcceleration") /\ call.args[4] = Zero) =>
        /\ ret.linear_velocity = call.args[2].linear_velocity
        /\ ret.angular_velocity = call.args[2].angular_velocity
        /\ IsFinite(ret.linear_velocity) /\ IsFinite(ret.angular_velocity)

-----------------------------------------------------------------------------
(***************************************************************************)
(* class SkidRobotMotionController                                         *)
(***************************************************************************)
\* SkidRobotMotionController(): sets the mode, the traction gain and the
\* duty limit; the other members are left uninitialized (u holds what they
\* happen to contain)
SkidRobotMotionController0(u) ==
    [ operating_mode_ |-> "OPEN_LOOP",
      traction_control_gain_ |-> R(1),
      max_motor_duty_ |-> R(100),
      robot_geometry_ |-> u.robot_geometry,
      pid_gains_ |-> u.pid_gains,
      lpf_alpha_ |-> u.lpf_alpha,
      max_linear_acceleration_ |-> u.max_linear_acceleration,
      max_angular_acceleration_ |-> u.max_angular_acceleration ]

\* SkidRobotMotionController(operating_mode, robot_geometry, pid_gains,
\*                           max_motor_duty)
SkidRobotMotionController4(operating_mode, robot_geometry, pid_gains, max_motor_duty) ==
    [ operating_mode_ |-> operating_mode,
      traction_control_gain_ |-> R(1),
      max_motor_duty_ |-> max_motor_duty,
      robot_geometry_ |-> robot_geometry,
      pid_gains_ |-> pid_gains,
      lpf_alpha_ |-> R(1),
      max_linear_acceleration_ |-> FLT_MAX,
      max_angular_acceleration_ |-> FLT_MAX ]

\* setRobotGeometry(robot_geometry): stored as given
SetRobotGeometry(m, robot_geometry) == [m EXCEPT !.robot_geometry_ = robot_geometry]

\* setAccelerationLimits(limits)
SetAccelerationLimits(m, limits) ==
    [m EXCEPT !.max_linear_acceleration_ = limits.linear_velocity,
              !.max_angular_acceleration_ = limits.angular_velocity]

\* setOperatingMode(operating_mode)
SetOperatingMode(m, operating_mode) == [m EXCEPT !.operating_mode_ = operating_mode]

\* setPidGains(pid_gains)
SetPidGains(m, pid_gains) == [m EXCEPT !.pid_gains_ = pid_gains]

\* setTractionGain(traction_control_gain)
SetTractionGain(m, gain) == [m EXCEPT !.traction_control_gain_ = gain]

\* setMotorMaxDuty(max_motor_duty)
SetMotorMaxDuty(m, max_motor_duty) == [m EXCEPT !.max_motor_duty_ = max_motor_duty]

\* setFilterAlpha(alpha)
SetFilterAlpha(m, alpha) == [m EXCEPT !.lpf_alpha_ = alpha]

\* runMotionControl(velocity_targets, current_duty_cycles, current_motor_speeds):
\* it estimates the robot velocities and then reaches the end of the function
\* without a return statement, so the motor_data the caller receives is
\* indeterminate (garbage holds what it happens to be).  The estimate and the
\* stance circumference it divided by are kept beside the result.
RunMotionControl(m, velocity_targets, current_duty_cycles, current_motor_speeds, garbage) ==
    [ kind |-> "motor_data",
      fl |-> garbage.fl, fr |-> garbage.fr, rl |-> garbage.rl, rr |-> garbage.rr,
      measured_velocities |->
          ComputeVelocitiesFromWheelspeeds(current_motor_speeds, m.robot_geometry_),
      cs |-> StanceCircumference(m.robot_geometry_) ]

(***************************************************************************)
(* The SkidRobotMotionController driven by an arbitrary caller.            *)
(***************************************************************************)
\* contents of the members the default constructor does not initialize
UninitializedSet ==
    { [ robot_geometry |-> g, pid_gains |-> k, lpf_alpha |-> f,
        max_linear_acceleration |-> f, max_angular_acceleration |-> f ] :
        g \in McGeometrySet, k \in McPidGainsSet, f \in IndeterminateFloats }

\* motor_data a call without return statement may hand back
GarbageSet == { MotorData(f, f, f, f) : f \in IndeterminateFloats }

InitMotion ==
    /\ pid = [kind |-> "unused"]
    /\ ret = NoRet
    /\ \/ \E u \in UninitializedSet :
            /\ mc = SkidRobotMotionController0(u)
            /\ call = Call("SkidRobotMotionController", << >>)
       \/ \E o \in OperatingModes, g \in McGeometrySet, k \in McPidGainsSet,
             d \in MaxDutySet :
            /\ mc = SkidRobotMotionController4(o, g, k, d)
            /\ call = Call("SkidRobotMotionController", <<o, g, k, d>>)

DoSetRobotGeometry ==
    \E g \in McGeometrySet :
        /\ mc' = SetRobotGeometry(mc, g)
        /\ call' = Call("setRobotGeometry", <<g>>)
        /\ ret' = NoRet
        /\ UNCHANGED pid

DoSetAccelerationLimits ==
    \E l \in AccelerationLimitsSet :
        /\ mc' = SetAccelerationLimits(mc, l)
        /\ call' = Call("setAccelerationLimits", <<l>>)
        /\ ret' = NoRet
        /\ UNCHANGED pid

DoSetOperatingMode ==
    \E o \in OperatingModes :
        /\ mc' = SetOperatingMode(mc, o)
        /\ call' = Call("setOperatingMode", <<o>>)
        /\ ret' = NoRet
        /\ UNCHANGED pid

DoSetPidGains ==
    \E k \in McPidGainsSet :
        /\ mc' = SetPidGains(mc, k)
        /\ call' = Call("setPidGains", <<k>>)
        /\ ret' = NoRet
        /\ UNCHANGED pid

DoSetTractionGain ==
    \E t \in TractionGainSet :
        /\ mc' = SetTractionGain(mc, t)
        /\ call' = Call("setTractionGain", <<t>>)
        /\ ret' = NoRet
        /\ UNCHANGED pid

DoSetMotorMaxDuty ==
    \E d \in MaxDutySet :
        /\ mc' = SetMotorMaxDuty(mc, d)
        /\ call' = Call("setMotorMaxDuty", <<d>>)
        /\ ret' = NoRet
        /\ UNCHANGED pid

DoSetFilterAlpha ==
    \E a \in FilterAlphaSet :
        /\ mc' = SetFilterAlpha(mc, a)
        /\ call' = Call("setFilterAlpha", <<a>>)
        /\ ret' = NoRet
        /\ UNCHANGED pid

DoRunMotionControl ==
    \E v \in VelocityTargetsSet, d \in DutyCyclesSet, w \in MotorSpeedsSet,
       garbage \in GarbageSet :
        /\ ret' = RunMotionControl(mc, v, d, w, garbage)
        /\ call' = Call("runMotionControl", <<v, d, w>>)
        /\ UNCHANGED <<pid, mc>>

NextMotion ==
    \/ DoSetRobotGeometry
    \/ DoSetAccelerationLimits
    \/ DoSetOperatingMode
    \/ DoSetPidGains
    \/ DoSetTractionGain
    \/ DoSetMotorMaxDuty
    \/ DoSetFilterAlpha
    \/ DoRunMotionControl

SpecMotion == InitMotion /\ [][NextMotion]_vars

-----------------------------------------------------------------------------
(***************************************************************************)
(* Properties of the motion controller (checked under SpecMotion).         *)
(***************************************************************************)
\* C3: each of the four duty values runMotionControl returns lies in
\* [-max_motor_duty_, +max_motor_duty_].
C3_DutyWithinMax ==
    call.op = "runMotionControl" =>
        \A duty \in {ret.fl, ret.fr, ret.rl, ret.rr} :
            InRange(duty, Neg(mc.max_motor_duty_), mc.max_motor_duty_)

PositiveDimensions(g) ==
    /\ Less(Zero, g.wheel_base)
    /\ Less(Zero, g.intra_axle_distance)
    /\ Less(Zero, g.wheel_radius)

\* C6: a geometry with a zero or negative dimension is never stored by the
\* constructor or by setRobotGeometry, and runMotionControl never divides by
\* a zero stance circumference.
C6_ZeroGeometryRejected ==
    /\ (call.op = "SkidRobotMotionController" /\ Len(call.args) = 4
            /\ ~PositiveDimensions(call.args[2]))
          => mc.robot_geometry_ # call.args[2]
    /\ (call.op = "setRobotGeometry" /\ ~PositiveDimensions(call.args[1]))
          => mc.robot_geometry_ # call.args[1]
    /\ call.op = "runMotionControl" => ret.cs # Zero

====
